---- MODULE Spec2Model ----
(***************************************************************************)
(* Model of the RIZZK risk-to-reward calculator: the core                   *)
(* (src/rizzk_core.py), the Streamlit script that calls it (src/app.py)    *)
(* and the demo script with its own calculation (src/demo_app.py).         *)
(*                                                                         *)
(* calculate_risk_reward, calculate_percentage_moves and                   *)
(* calculate_risk_reward_ratio are pure functions.  The state machine      *)
(* draws the arguments in Init and applies the functions step by step;     *)
(* the state after a step holds the call's outcome: the returned values    *)
(* or the exception the call raised.                                       *)
(*                                                                         *)
(* Spec and LooseSpec call the core with typed and with untyped            *)
(* arguments.  AppSpec follows the script runs of app.py over one session: *)
(* a run starts with the widget values, goes through the preview, the      *)
(* submit checks and the calculation, and ends idle, stopped, invalid,     *)
(* raised or with results; session_state lives across runs.  DemoSpec      *)
(* submits the form of demo_app.py once.                                   *)
(*                                                                         *)
(* Numbers: a Python float is a binary floating-point number.  It is       *)
(* modelled as the rational [n, d] it denotes (lowest terms, d a power of  *)
(* two), and every float operation rounds its exact result to FloatBits    *)
(* significant bits, to nearest, ties to even, as IEEE 754 does.  CPython  *)
(* has 53 significant bits; the model keeps the rounding and shortens the  *)
(* significand.  The exponent range is not bounded (no overflow and no     *)
(* underflow at the magnitudes of prices and account sizes).               *)
(***************************************************************************)
EXTENDS Integers, Sequences, FiniteSets, TLC

VARIABLES
    args,       \* the arguments of the calculate_risk_reward call
    outcome,    \* what that call returned or raised
    pc,         \* where the caller is
    hargs,      \* the arguments of the last helper call
    moves,      \* outcome of calculate_percentage_moves
    ratio,      \* outcome of calculate_risk_reward_ratio
    form,                 \* app.py: the values of the form widgets
    calc_loading,         \* app.py: st.session_state.calc_loading
    calc_disabled_until,  \* app.py: st.session_state.calc_disabled_until
    calc_disabled,        \* app.py: the Calculate button was rendered disabled
    history,              \* app.py: st.session_state.history
    run                   \* app.py: how the latest script run went

coreVars == <<args, outcome, pc, hargs, moves, ratio>>

coreVarsButPc == <<args, outcome, hargs, moves, ratio>>

appVars == <<form, calc_loading, calc_disabled_until, calc_disabled, history, run>>

vars == <<args, outcome, pc, hargs, moves, ratio,
          form, calc_loading, calc_disabled_until, calc_disabled, history, run>>

(***************************************************************************)
(* Exact rational arithmetic.                                              *)
(***************************************************************************)
Abs(x) == IF x < 0 THEN -x ELSE x

RECURSIVE GCD(_, _)
GCD(a, b) == IF b = 0 THEN a ELSE GCD(b, a % b)

\* n/d in lowest terms with a positive denominator (d # 0).
Rat(n, d) ==
    LET g == GCD(Abs(n), Abs(d))
        s == IF d < 0 THEN -1 ELSE 1
    IN  [n |-> s * (n \div g), d |-> s * (d \div g)]

\* A whole number as a rational.
Whole(k) == [n |-> k, d |-> 1]

RNeg(a) == [n |-> -a.n, d |-> a.d]

RAdd(a, b) ==
    LET g == GCD(a.d, b.d)
    IN  Rat(a.n * (b.d \div g) + b.n * (a.d \div g), (a.d \div g) * b.d)

RSub(a, b) ==
    LET g == GCD(a.d, b.d)
    IN  Rat(a.n * (b.d \div g) - b.n * (a.d \div g), (a.d \div g) * b.d)

\* Cross-cancel before multiplying, so the products stay small.
RMul(a, b) ==
    LET g1 == GCD(Abs(a.n), b.d)
        g2 == GCD(Abs(b.n), a.d)
    IN  Rat((a.n \div g1) * (b.n \div g2), (a.d \div g2) * (b.d \div g1))

\* a / b for b # 0.
RDiv(a, b) == RMul(a, Rat(b.d, b.n))

\* a < b: by the integer parts, then by the fractional parts.
RLess(a, b) ==
    LET fa == a.n \div a.d
        fb == b.n \div b.d
        g  == GCD(a.d, b.d)
    IN  IF fa # fb THEN fa < fb
        ELSE (a.n % a.d) * (b.d \div g) < (b.n % b.d) * (a.d \div g)

RLeq(a, b) == ~RLess(b, a)

\* int(x) of a float: truncation toward zero.
IntOf(x) == IF x.n >= 0 THEN x.n \div x.d ELSE -((-x.n) \div x.d)

(***************************************************************************)
(* Floating-point arithmetic: the operators +, -, * and / of Python.       *)
(***************************************************************************)
\* Significant bits of a float (sys.float_info.mant_dig is 53).
FloatBits == 14

RECURSIVE Pow2(_)
Pow2(k) == IF k = 0 THEN 1 ELSE 2 * Pow2(k - 1)

\* Number of bits of n >= 0.
RECURSIVE BitLen(_)
BitLen(n) == IF n = 0 THEN 0 ELSE 1 + BitLen(n \div 2)

\* Exponent of 2 in n > 0.
RECURSIVE TwoAdic(_)
TwoAdic(n) == IF n % 2 = 0 THEN 1 + TwoAdic(n \div 2) ELSE 0

OddPart(n) == n \div Pow2(TwoAdic(n))

\* m * 2^e
Scaled(m, e) == IF e >= 0 THEN Whole(m * Pow2(e)) ELSE Rat(m, Pow2(-e))

\* (num / den) * 2^ex for num, den > 0, rounded to FloatBits significant
\* bits: to nearest, ties to the even significand.
RoundScaled(num, den, ex) ==
    LET bl    == BitLen(num) - BitLen(den)
        s0    == FloatBits - bl - 1
        Up(s) == num * Pow2(IF s > 0 THEN s ELSE 0)
        Dn(s) == den * Pow2(IF s < 0 THEN -s ELSE 0)
        s     == IF Up(s0) < Dn(s0) * Pow2(FloatBits - 1) THEN s0 + 1 ELSE s0
        q     == Up(s) \div Dn(s)
        r     == Up(s) % Dn(s)
        m     == IF 2 * r > Dn(s) \/ (2 * r = Dn(s) /\ q % 2 = 1)
                 THEN q + 1 ELSE q
    IN  Scaled(m, ex - s)

\* Exponent of 2 in the rational x # 0.
Expo(x) == TwoAdic(Abs(x.n)) - TwoAdic(x.d)

\* The float nearest to the rational x.
Fl(x) ==
    IF x.n = 0 THEN Whole(0)
    ELSE LET v == RoundScaled(OddPart(Abs(x.n)), OddPart(x.d), Expo(x))
         IN  IF x.n < 0 THEN RNeg(v) ELSE v

FAdd(a, b) == Fl(RAdd(a, b))

FSub(a, b) == Fl(RSub(a, b))

FMul(a, b) ==
    IF a.n = 0 \/ b.n = 0 THEN Whole(0)
    ELSE LET v == RoundScaled(OddPart(Abs(a.n)) * OddPart(Abs(b.n)),
                              OddPart(a.d) * OddPart(b.d),
                              Expo(a) + Expo(b))
         IN  IF (a.n < 0) # (b.n < 0) THEN RNeg(v) ELSE v

\* a / b for b # 0 (Python raises ZeroDivisionError otherwise).
FDiv(a, b) ==
    IF a.n = 0 THEN Whole(0)
    ELSE LET v == RoundScaled(OddPart(Abs(a.n)) * OddPart(b.d),
                              OddPart(a.d) * OddPart(Abs(b.n)),
                              Expo(a) - Expo(b))
         IN  IF (a.n < 0) # (b.n < 0) THEN RNeg(v) ELSE v

\* x is a float: it has at most FloatBits significant bits.
IsFloat(x) == x.n = 0 \/ (OddPart(x.d) = 1 /\ BitLen(OddPart(Abs(x.n))) <= FloatBits)

(***************************************************************************)
(* Outcomes of a call.                                                     *)
(***************************************************************************)
\* raise ValueError(msg)
Raise(msg) == [ok |-> FALSE, exc |-> "ValueError", msg |-> msg]

NoOutcome == [ok |-> FALSE, exc |-> "", msg |-> ""]

\* A division by zero: raise ZeroDivisionError
RaiseZeroDivision ==
    [ok |-> FALSE, exc |-> "ZeroDivisionError", msg |-> "float division by zero"]

MsgAccount    == "Account size must be greater than 0."
MsgEntry      == "Entry price must be greater than 0."
MsgStop       == "Stop loss price must be greater than 0."
MsgSame       == "Entry price and stop loss cannot be the same."
MsgPercent    == "Risk percentage must be between 0 and 100."
MsgRiskPos    == "Risk amount must be greater than 0."
MsgRiskExceed == "Risk amount cannot exceed account size."
MsgLongOrder  == "Entry price must be higher than stop loss for long positions."
MsgShortOrder == "Entry price must be lower than stop loss for short positions."
MsgCeiling    == "Your stop is basically at entry. That's not a trade, that's a wish."

\* The sanity ceiling on the position size.
MaxPositionSize == 1000000

(***************************************************************************)
(* calculate_risk_reward, block by block.  Each check yields "" when it    *)
(* passes and the message of the ValueError it raises otherwise.           *)
(***************************************************************************)
\* Faulty variant: the stop-loss check written with < instead of <=.
CheckPositive_StrictStop(account_size, entry_price, stop_loss) ==
    IF RLeq(account_size, Whole(0)) THEN MsgAccount
    ELSE IF RLeq(entry_price, Whole(0)) THEN MsgEntry
    ELSE IF RLess(stop_loss, Whole(0)) THEN MsgStop
    ELSE ""

\* if account_size <= 0 / entry_price <= 0 / stop_loss <= 0: raise
CheckPositive(account_size, entry_price, stop_loss) ==
    IF RLeq(account_size, Whole(0)) THEN MsgAccount
    ELSE IF RLeq(entry_price, Whole(0)) THEN MsgEntry
    ELSE IF RLeq(stop_loss, Whole(0)) THEN MsgStop
    ELSE ""

\* Faulty variant: the equality check left out.
CheckDistinct_Skipped(entry_price, stop_loss) == ""

\* if entry_price == stop_loss: raise
CheckDistinct(entry_price, stop_loss) ==
    IF entry_price = stop_loss THEN MsgSame ELSE ""

\* Faulty variant: the upper bound written with >= instead of >.
RiskAmountPercent_Exclusive100(account_size, risk_input) ==
    IF RLeq(risk_input, Whole(0)) \/ RLeq(Whole(100), risk_input)
    THEN Raise(MsgPercent)
    ELSE [ok |-> TRUE,
          risk_amount |-> FMul(account_size, FDiv(risk_input, Whole(100)))]

\* Faulty variant: the percentage used as a fraction, without the division by 100.
RiskAmountPercent_Unscaled(account_size, risk_input) ==
    IF RLeq(risk_input, Whole(0)) \/ RLess(Whole(100), risk_input)
    THEN Raise(MsgPercent)
    ELSE [ok |-> TRUE, risk_amount |-> FMul(account_size, risk_input)]

\* risk_mode == "% of Account"
RiskAmountPercent(account_size, risk_input) ==
    IF RLeq(risk_input, Whole(0)) \/ RLess(Whole(100), risk_input)
    THEN Raise(MsgPercent)
    ELSE [ok |-> TRUE,
          risk_amount |-> FMul(account_size, FDiv(risk_input, Whole(100)))]

\* Faulty variant: the fixed amount read as a percentage of the account.
RiskAmountFixed_AsPercent(account_size, risk_input) ==
    IF RLeq(risk_input, Whole(0)) THEN Raise(MsgRiskPos)
    ELSE IF RLess(account_size, risk_input) THEN Raise(MsgRiskExceed)
    ELSE [ok |-> TRUE,
          risk_amount |-> FMul(account_size, FDiv(risk_input, Whole(100)))]

\* Faulty variant: the account-size bound written with >= instead of >.
RiskAmountFixed_ExclusiveAccount(account_size, risk_input) ==
    IF RLeq(risk_input, Whole(0)) THEN Raise(MsgRiskPos)
    ELSE IF RLeq(account_size, risk_input) THEN Raise(MsgRiskExceed)
    ELSE [ok |-> TRUE, risk_amount |-> risk_input]

\* else: Fixed $ Amount
RiskAmountFixed(account_size, risk_input) ==
    IF RLeq(risk_input, Whole(0)) THEN Raise(MsgRiskPos)
    ELSE IF RLess(account_size, risk_input) THEN Raise(MsgRiskExceed)
    ELSE [ok |-> TRUE, risk_amount |-> risk_input]

RiskAmount(risk_mode, account_size, risk_input) ==
    IF risk_mode = "% of Account"
    THEN RiskAmountPercent(account_size, risk_input)
    ELSE RiskAmountFixed(account_size, risk_input)

\* Faulty variant: profit_2_1 = entry_price + 2 * entry_price - stop_loss
\* (the parentheses around the stop distance dropped).
LongBranch_Unparenthesised(risk_amount, entry_price, stop_loss) ==
    IF RLeq(entry_price, stop_loss) THEN Raise(MsgLongOrder)
    ELSE LET position_size == FDiv(risk_amount, FSub(entry_price, stop_loss))
         IN  [ok |-> TRUE,
              position_size    |-> position_size,
              stop_loss_amount |-> FMul(position_size, FSub(entry_price, stop_loss)),
              profit_1_1 |-> FAdd(entry_price, FSub(entry_price, stop_loss)),
              profit_2_1 |-> FSub(FAdd(entry_price, FMul(Whole(2), entry_price)),
                                  stop_loss)]

\* Faulty variant: the 1R and 2R targets returned in each other's place.
LongBranch_SwappedTargets(risk_amount, entry_price, stop_loss) ==
    IF RLeq(entry_price, stop_loss) THEN Raise(MsgLongOrder)
    ELSE LET position_size == FDiv(risk_amount, FSub(entry_price, stop_loss))
         IN  [ok |-> TRUE,
              position_size    |-> position_size,
              stop_loss_amount |-> FMul(position_size, FSub(entry_price, stop_loss)),
              profit_1_1 |-> FAdd(entry_price,
                                  FMul(Whole(2), FSub(entry_price, stop_loss))),
              profit_2_1 |-> FAdd(entry_price, FSub(entry_price, stop_loss))]

\* Faulty variant: the targets measured from stop_loss instead of entry_price.
LongBranch_TargetsFromStop(risk_amount, entry_price, stop_loss) ==
    IF RLeq(entry_price, stop_loss) THEN Raise(MsgLongOrder)
    ELSE LET position_size == FDiv(risk_amount, FSub(entry_price, stop_loss))
         IN  [ok |-> TRUE,
              position_size    |-> position_size,
              stop_loss_amount |-> FMul(position_size, FSub(entry_price, stop_loss)),
              profit_1_1 |-> FAdd(stop_loss, FSub(entry_price, stop_loss)),
              profit_2_1 |-> FAdd(stop_loss,
                                  FMul(Whole(2), FSub(entry_price, stop_loss)))]

\* Faulty variant: the loss at the stop taken on the whole entry price
\* instead of the distance to the stop.
LongBranch_LossAtEntry(risk_amount, entry_price, stop_loss) ==
    IF RLeq(entry_price, stop_loss) THEN Raise(MsgLongOrder)
    ELSE LET position_size == FDiv(risk_amount, FSub(entry_price, stop_loss))
         IN  [ok |-> TRUE,
              position_size    |-> position_size,
              stop_loss_amount |-> FMul(position_size, entry_price),
              profit_1_1 |-> FAdd(entry_price, FSub(entry_price, stop_loss)),
              profit_2_1 |-> FAdd(entry_price,
                                  FMul(Whole(2), FSub(entry_price, stop_loss)))]

\* position_type == "Long"
LongBranch(risk_amount, entry_price, stop_loss) ==
    IF RLeq(entry_price, stop_loss) THEN Raise(MsgLongOrder)
    ELSE LET position_size == FDiv(risk_amount, FSub(entry_price, stop_loss))
         IN  [ok |-> TRUE,
              position_size    |-> position_size,
              stop_loss_amount |-> FMul(position_size, FSub(entry_price, stop_loss)),
              profit_1_1 |-> FAdd(entry_price, FSub(entry_price, stop_loss)),
              profit_2_1 |-> FAdd(entry_price,
                                  FMul(Whole(2), FSub(entry_price, stop_loss)))]

\* Faulty variant: the targets of the Long branch (distance added to entry).
ShortBranch_AddsDistance(risk_amount, entry_price, stop_loss) ==
    IF RLeq(stop_loss, entry_price) THEN Raise(MsgShortOrder)
    ELSE LET position_size == FDiv(risk_amount, FSub(stop_loss, entry_price))
         IN  [ok |-> TRUE,
              position_size    |-> position_size,
              stop_loss_amount |-> FMul(position_size, FSub(stop_loss, entry_price)),
              profit_1_1 |-> FAdd(entry_price, FSub(stop_loss, entry_price)),
              profit_2_1 |-> FAdd(entry_price,
                                  FMul(Whole(2), FSub(stop_loss, entry_price)))]

\* Faulty variant: the ordering guard of the Long branch (entry_price <= stop_loss).
ShortBranch_LongGuard(risk_amount, entry_price, stop_loss) ==
    IF RLeq(entry_price, stop_loss) THEN Raise(MsgShortOrder)
    ELSE LET position_size == FDiv(risk_amount, FSub(stop_loss, entry_price))
         IN  [ok |-> TRUE,
              position_size    |-> position_size,
              stop_loss_amount |-> FMul(position_size, FSub(stop_loss, entry_price)),
              profit_1_1 |-> FSub(entry_price, FSub(stop_loss, entry_price)),
              profit_2_1 |-> FSub(entry_price,
                                  FMul(Whole(2), FSub(stop_loss, entry_price)))]

\* Faulty variant: the Long branch's distance entry_price - stop_loss, which
\* is negative for a Short.
ShortBranch_SignedDistance(risk_amount, entry_price, stop_loss) ==
    IF RLeq(stop_loss, entry_price) THEN Raise(MsgShortOrder)
    ELSE LET position_size == FDiv(risk_amount, FSub(entry_price, stop_loss))
         IN  [ok |-> TRUE,
              position_size    |-> position_size,
              stop_loss_amount |-> FMul(position_size, FSub(entry_price, stop_loss)),
              profit_1_1 |-> FAdd(entry_price, FSub(entry_price, stop_loss)),
              profit_2_1 |-> FAdd(entry_price,
                                  FMul(Whole(2), FSub(entry_price, stop_loss)))]

\* else: Short
ShortBranch(risk_amount, entry_price, stop_loss) ==
    IF RLeq(stop_loss, entry_price) THEN Raise(MsgShortOrder)
    ELSE LET position_size == FDiv(risk_amount, FSub(stop_loss, entry_price))
         IN  [ok |-> TRUE,
              position_size    |-> position_size,
              stop_loss_amount |-> FMul(position_size, FSub(stop_loss, entry_price)),
              profit_1_1 |-> FSub(entry_price, FSub(stop_loss, entry_price)),
              profit_2_1 |-> FSub(entry_price,
                                  FMul(Whole(2), FSub(stop_loss, entry_price)))]

\* Faulty variant: a position type that is neither "Long" nor "Short" is
\* rejected instead of taking the else branch.
SideBranch_RejectsUnknown(position_type, risk_amount, entry_price, stop_loss) ==
    IF position_type = "Long"
    THEN LongBranch(risk_amount, entry_price, stop_loss)
    ELSE IF position_type = "Short"
         THEN ShortBranch(risk_amount, entry_price, stop_loss)
         ELSE Raise("Unknown position type")

SideBranch(position_type, risk_amount, entry_price, stop_loss) ==
    IF position_type = "Long"
    THEN LongBranch(risk_amount, entry_price, stop_loss)
    ELSE ShortBranch(risk_amount, entry_price, stop_loss)

\* Faulty variant: the ceiling written with >= instead of >.
ExceedsCeiling_Inclusive(position_size) ==
    RLeq(Whole(MaxPositionSize), position_size)

\* if position_size > 1_000_000: raise
ExceedsCeiling(position_size) == RLess(Whole(MaxPositionSize), position_size)

\* Faulty variant: round(position_size) in place of int(position_size).
RoundPosition_Nearest(position_size) ==
    (2 * position_size.n + position_size.d) \div (2 * position_size.d)

\* Faulty variant: math.ceil(position_size) in place of int(position_size).
RoundPosition_Ceiling(position_size) ==
    IF position_size.d = 1 THEN position_size.n ELSE IntOf(position_size) + 1

\* Faulty variant: a minimum of one unit, max(1, int(position_size)).
RoundPosition_AtLeastOne(position_size) ==
    IF IntOf(position_size) < 1 THEN 1 ELSE IntOf(position_size)

\* position_size_rounded = int(position_size)
RoundPosition(position_size) == IntOf(position_size)

\* Faulty variant: the side-ordering check moved before the risk-input check.
calculate_risk_reward_SideFirst(position_type, account_size, risk_mode, risk_input, entry_price, stop_loss) ==
    LET positive == CheckPositive(account_size, entry_price, stop_loss)
        distinct == CheckDistinct(entry_price, stop_loss)
        risk     == RiskAmount(risk_mode, account_size, risk_input)
        amount   == IF risk.ok THEN risk.risk_amount ELSE Whole(1)
        side     == SideBranch(position_type, amount, entry_price, stop_loss)
    IN  IF positive # "" THEN Raise(positive)
        ELSE IF distinct # "" THEN Raise(distinct)
        ELSE IF ~side.ok THEN side
        ELSE IF ~risk.ok THEN risk
        ELSE IF ExceedsCeiling(side.position_size) THEN Raise(MsgCeiling)
        ELSE [ok |-> TRUE,
              position_size         |-> side.position_size,
              position_size_rounded |-> RoundPosition(side.position_size),
              risk_amount           |-> risk.risk_amount,
              profit_1_1            |-> side.profit_1_1,
              profit_2_1            |-> side.profit_2_1,
              stop_loss_amount      |-> side.stop_loss_amount]

calculate_risk_reward(position_type, account_size, risk_mode, risk_input, entry_price, stop_loss) ==
    LET positive == CheckPositive(account_size, entry_price, stop_loss)
        distinct == CheckDistinct(entry_price, stop_loss)
        risk     == RiskAmount(risk_mode, account_size, risk_input)
        side     == SideBranch(position_type, risk.risk_amount, entry_price, stop_loss)
    IN  IF positive # "" THEN Raise(positive)
        ELSE IF distinct # "" THEN Raise(distinct)
        ELSE IF ~risk.ok THEN risk
        ELSE IF ~side.ok THEN side
        ELSE IF ExceedsCeiling(side.position_size) THEN Raise(MsgCeiling)
        ELSE [ok |-> TRUE,
              position_size         |-> side.position_size,
              position_size_rounded |-> RoundPosition(side.position_size),
              risk_amount           |-> risk.risk_amount,
              profit_1_1            |-> side.profit_1_1,
              profit_2_1            |-> side.profit_2_1,
              stop_loss_amount      |-> side.stop_loss_amount]

(***************************************************************************)
(* calculate_percentage_moves.  It validates nothing: a zero entry_price   *)
(* makes the first division raise ZeroDivisionError.                       *)
(***************************************************************************)
\* position_type == "Long"
PercentageMovesLong(entry_price, stop_loss, profit_1_1) ==
    IF entry_price.n = 0 THEN RaiseZeroDivision
    ELSE [ok |-> TRUE,
          pct_drop_to_stop |->
              FMul(FDiv(FSub(entry_price, stop_loss), entry_price), Whole(100)),
          pct_move_to_1_1 |->
              FMul(FDiv(FSub(profit_1_1, entry_price), entry_price), Whole(100))]

\* Faulty variant: the Long branch's differences, negative for a Short.
PercentageMovesShort_LongFormulas(entry_price, stop_loss, profit_1_1) ==
    IF entry_price.n = 0 THEN RaiseZeroDivision
    ELSE [ok |-> TRUE,
          pct_drop_to_stop |->
              FMul(FDiv(FSub(entry_price, stop_loss), entry_price), Whole(100)),
          pct_move_to_1_1 |->
              FMul(FDiv(FSub(profit_1_1, entry_price), entry_price), Whole(100))]

\* Faulty variant: a zero entry_price guarded as calculate_risk_reward_ratio
\* guards a zero risk, returning zeros.
PercentageMovesShort_Guarded(entry_price, stop_loss, profit_1_1) ==
    IF entry_price.n = 0
    THEN [ok |-> TRUE, pct_drop_to_stop |-> Whole(0), pct_move_to_1_1 |-> Whole(0)]
    ELSE [ok |-> TRUE,
          pct_drop_to_stop |->
              FMul(FDiv(FSub(stop_loss, entry_price), entry_price), Whole(100)),
          pct_move_to_1_1 |->
              FMul(FDiv(FSub(entry_price, profit_1_1), entry_price), Whole(100))]

\* else
PercentageMovesShort(entry_price, stop_loss, profit_1_1) ==
    IF entry_price.n = 0 THEN RaiseZeroDivision
    ELSE [ok |-> TRUE,
          pct_drop_to_stop |->
              FMul(FDiv(FSub(stop_loss, entry_price), entry_price), Whole(100)),
          pct_move_to_1_1 |->
              FMul(FDiv(FSub(entry_price, profit_1_1), entry_price), Whole(100))]

calculate_percentage_moves(entry_price, stop_loss, profit_1_1, position_type) ==
    IF position_type = "Long"
    THEN PercentageMovesLong(entry_price, stop_loss, profit_1_1)
    ELSE PercentageMovesShort(entry_price, stop_loss, profit_1_1)

(***************************************************************************)
(* calculate_risk_reward_ratio.                                            *)
(***************************************************************************)
\* Faulty variant: risk = |entry_price - stop_loss| whatever the side.
RatioRisk_Absolute(entry_price, stop_loss, position_type) ==
    IF RLess(stop_loss, entry_price) THEN FSub(entry_price, stop_loss)
                                     ELSE FSub(stop_loss, entry_price)

\* risk = entry_price - stop_loss (Long), stop_loss - entry_price (else)
RatioRisk(entry_price, stop_loss, position_type) ==
    IF position_type = "Long" THEN FSub(entry_price, stop_loss)
                              ELSE FSub(stop_loss, entry_price)

\* Faulty variant: reward = |profit_target - entry_price| whatever the side.
RatioReward_Unsigned(entry_price, profit_target, position_type) ==
    IF RLess(entry_price, profit_target) THEN FSub(profit_target, entry_price)
                                         ELSE FSub(entry_price, profit_target)

\* reward = profit_target - entry_price (Long), entry_price - profit_target (else)
RatioReward(entry_price, profit_target, position_type) ==
    IF position_type = "Long" THEN FSub(profit_target, entry_price)
                              ELSE FSub(entry_price, profit_target)

\* Faulty variant: return reward / risk, without the risk != 0 guard.
RatioResult_Unguarded(reward, risk) ==
    IF risk.n # 0 THEN [ok |-> TRUE, value |-> FDiv(reward, risk)]
                  ELSE RaiseZeroDivision

\* return reward / risk if risk != 0 else 0
RatioResult(reward, risk) ==
    IF risk.n # 0 THEN [ok |-> TRUE, value |-> FDiv(reward, risk)]
                  ELSE [ok |-> TRUE, value |-> Whole(0)]

calculate_risk_reward_ratio(entry_price, stop_loss, profit_target, position_type) ==
    RatioResult(RatioReward(entry_price, profit_target, position_type),
                RatioRisk(entry_price, stop_loss, position_type))

(***************************************************************************)
(* The inputs of a call.                                                   *)
(***************************************************************************)
\* Prices are the half-units k/2 for k in -1 .. MaxTick, two prices that
\* use every bit of the significand (one unit in the last place below 4 and
\* below 3.25), and a power of two with the two floats just below it (64,
\* its predecessor and the float before that), whose distances are half a
\* unit in the last place of 64.
MaxTick == 4

LongPrices == {Rat(Pow2(FloatBits) - 1, Pow2(FloatBits - 2)),
               Rat(13 * Pow2(FloatBits - 4) - 1, Pow2(FloatBits - 2))}

EdgeEntry == Whole(Pow2(6))

EdgeStop == Rat(Pow2(FloatBits) - 1, Pow2(FloatBits - 6))

EdgeBelow == Rat(Pow2(FloatBits) - 2, Pow2(FloatBits - 6))

Prices == {Rat(k, 2) : k \in -1 .. MaxTick} \cup LongPrices
              \cup {EdgeEntry, EdgeStop, EdgeBelow}

AccountSizes == {Whole(-1), Whole(0), Whole(1), Whole(100), Whole(1000000)}

RiskInputs == {Whole(-1), Whole(0), Rat(1, 2), Whole(1), Whole(13), Whole(50),
               Whole(100), Whole(101), Whole(1000000)}

PositionTypes == {"Long", "Short"}

RiskModes == {"% of Account", "Fixed $ Amount"}

Args == [position_type : PositionTypes, account_size : AccountSizes,
         risk_mode : RiskModes, risk_input : RiskInputs,
         entry_price : Prices, stop_loss : Prices]

\* The arguments of a helper called on its own.
HelperArgs == [position_type : PositionTypes, entry_price : Prices,
               stop_loss : Prices, target : Prices]

\* No calculate_risk_reward call / no helper call in this run.
NoArgs == [position_type |-> "", account_size |-> Whole(0), risk_mode |-> "",
           risk_input |-> Whole(0), entry_price |-> Whole(0),
           stop_loss |-> Whole(0)]

NoHelperArgs == [position_type |-> "", entry_price |-> Whole(0),
                 stop_loss |-> Whole(0), target |-> Whole(0)]

\* No script run of app.py has happened.
NoRun == [end |-> "none", submitted |-> FALSE, clear |-> FALSE,
          is_ready |-> FALSE, preview |-> NoOutcome, results |-> NoOutcome]

\* The annotations Literal["Long", "Short"] and Literal["% of Account",
\* "Fixed $ Amount"] are not enforced at run time: an untyped caller can pass
\* any string.
LoosePositionTypes == PositionTypes \cup {"Hold"}

LooseRiskModes == RiskModes \cup {"Percent"}

LooseArgs == [position_type : LoosePositionTypes, account_size : AccountSizes,
              risk_mode : LooseRiskModes, risk_input : RiskInputs,
              entry_price : Prices, stop_loss : Prices]

LooseHelperArgs == [position_type : LoosePositionTypes, entry_price : Prices,
                    stop_loss : Prices, target : Prices]

(***************************************************************************)
(* The state machine.  A run is either the calculation path of the app     *)
(* (calculate_risk_reward, then on success calculate_percentage_moves and  *)
(* calculate_risk_reward_ratio on its results), or one helper called on    *)
(* its own with arbitrary arguments, as the unit tests do.                 *)
(***************************************************************************)
TypeOK ==
    /\ args \in Args \cup {NoArgs}
    /\ hargs \in [position_type : PositionTypes \cup {""}, entry_price : Prices,
                  stop_loss : Prices,
                  target : {x \in [n : Int, d : Nat] : TRUE}] \cup {NoHelperArgs}
    /\ pc \in {"ready", "done", "moved", "rated",
               "helper", "helper_moved", "helper_rated"}

\* No Streamlit session: the functions are called directly.
NoSession ==
    /\ form = NoArgs
    /\ calc_loading = FALSE
    /\ calc_disabled_until = 0
    /\ calc_disabled = FALSE
    /\ history = << >>
    /\ run = NoRun

Init ==
    /\ NoSession
    /\ outcome = NoOutcome
    /\ moves = NoOutcome
    /\ ratio = NoOutcome
    /\ \/ pc = "ready" /\ args \in Args /\ hargs = NoHelperArgs
       \/ pc = "helper" /\ args = NoArgs /\ hargs \in HelperArgs

Call ==
    /\ pc = "ready"
    /\ outcome' = calculate_risk_reward(args.position_type, args.account_size,
                                        args.risk_mode, args.risk_input,
                                        args.entry_price, args.stop_loss)
    /\ pc' = "done"
    /\ UNCHANGED <<args, hargs, moves, ratio>>
    /\ UNCHANGED appVars

\* After a successful calculation: the percentage moves of its 1R target.
AppPercentageMoves ==
    /\ pc = "done" /\ outcome.ok
    /\ hargs' = [position_type |-> args.position_type,
                 entry_price |-> args.entry_price,
                 stop_loss |-> args.stop_loss, target |-> outcome.profit_1_1]
    /\ moves' = calculate_percentage_moves(args.entry_price, args.stop_loss,
                                           outcome.profit_1_1, args.position_type)
    /\ pc' = "moved"
    /\ UNCHANGED <<args, outcome, ratio>>
    /\ UNCHANGED appVars

\* Then the ratio of one of the calculation's own targets.
AppRatio ==
    /\ pc = "moved"
    /\ \E t \in {outcome.profit_1_1, outcome.profit_2_1} :
          /\ hargs' = [hargs EXCEPT !.target = t]
          /\ ratio' = calculate_risk_reward_ratio(args.entry_price, args.stop_loss,
                                                  t, args.position_type)
    /\ pc' = "rated"
    /\ UNCHANGED <<args, outcome, moves>>
    /\ UNCHANGED appVars

\* calculate_percentage_moves called on its own.
StandaloneMoves ==
    /\ pc = "helper"
    /\ moves' = calculate_percentage_moves(hargs.entry_price, hargs.stop_loss,
                                           hargs.target, hargs.position_type)
    /\ pc' = "helper_moved"
    /\ UNCHANGED <<args, outcome, hargs, ratio>>
    /\ UNCHANGED appVars

\* calculate_risk_reward_ratio called on its own.
StandaloneRatio ==
    /\ pc = "helper"
    /\ ratio' = calculate_risk_reward_ratio(hargs.entry_price, hargs.stop_loss,
                                            hargs.target, hargs.position_type)
    /\ pc' = "helper_rated"
    /\ UNCHANGED <<args, outcome, hargs, moves>>
    /\ UNCHANGED appVars

Next ==
    \/ Call
    \/ AppPercentageMoves
    \/ AppRatio
    \/ StandaloneMoves
    \/ StandaloneRatio

Spec == Init /\ [][Next]_vars

\* The same calls made by an untyped caller.
LooseInit ==
    /\ NoSession
    /\ outcome = NoOutcome
    /\ moves = NoOutcome
    /\ ratio = NoOutcome
    /\ \/ pc = "ready" /\ args \in LooseArgs /\ hargs = NoHelperArgs
       \/ pc = "helper" /\ args = NoArgs /\ hargs \in LooseHelperArgs

LooseSpec == LooseInit /\ [][Next]_vars

(***************************************************************************)
(* app.py: the Streamlit script.  Streamlit runs the whole script again on *)
(* every interaction.  A run is a sequence of steps, pc telling where it   *)
(* is: "app" between two runs, "preview" before the preview call,          *)
(* "submit" at the submit block, "calculate" before the call of line 1024  *)
(* and "calculated" after it; no interaction is taken while a run is under *)
(* way.  st.stop() and st.rerun() end a run by raising a BaseException,    *)
(* which the script's "except Exception" (line 1165) does not catch; a     *)
(* ValueError raised by calculate_risk_reward ends the run in that         *)
(* handler.                                                                *)
(***************************************************************************)
MaxHistory == 2

\* The values the number inputs can hold: all have min_value 0.0, the risk
\* percentage has min_value 0.1 and max_value 10.0 (lines 728-797, 813-819).
AppPrices == {Whole(0), Whole(1), Whole(2)}

AppAccountSizes == {Whole(0), Whole(4000000)}

AppRiskPercentages == {Rat(1, 2)}

AppRiskAmounts == {Whole(0), Whole(100), Whole(4000000), Whole(8000000)}

\* The stop widget is bounded by the entry: at most max(0, entry - epsilon)
\* for a Long, at least entry + epsilon for a Short (lines 822-860).
StopAllowed(position_type, entry_price, stop_loss) ==
    IF position_type = "Long"
    THEN IF RLess(Whole(0), entry_price) THEN RLess(stop_loss, entry_price)
         ELSE stop_loss = Whole(0)
    ELSE RLess(entry_price, stop_loss)

\* risk_input is risk_percentage in "% of Account" mode and
\* risk_amount_input otherwise (lines 921, 1023, 1102).
FormValues ==
    {f \in [position_type : PositionTypes, account_size : AppAccountSizes,
            risk_mode : RiskModes,
            risk_input : AppRiskPercentages \cup AppRiskAmounts,
            entry_price : AppPrices, stop_loss : AppPrices] :
        /\ IF f.risk_mode = "% of Account"
           THEN f.risk_input \in AppRiskPercentages
           ELSE f.risk_input \in AppRiskAmounts
        /\ StopAllowed(f.position_type, f.entry_price, f.stop_loss)}

\* The float 0.1 of the readiness check (line 901).
MinRiskPercentage == Fl(Rat(1, 10))

\* calculate_risk_reward on the values of the form.
Calculated(f) ==
    calculate_risk_reward(f.position_type, f.account_size, f.risk_mode,
                          f.risk_input, f.entry_price, f.stop_loss)

\* Faulty variant: the fixed risk amount is not looked at.
Warnings_NoRiskAmount(f) ==
    {w \in {"account", "entry", "stop", "long", "short", "percent"} :
        \/ w = "account" /\ RLeq(f.account_size, Whole(0))
        \/ w = "entry" /\ RLeq(f.entry_price, Whole(0))
        \/ w = "stop" /\ RLeq(f.stop_loss, Whole(0))
        \/ w = "long" /\ f.position_type = "Long" /\ RLess(Whole(0), f.entry_price)
                      /\ RLeq(f.entry_price, f.stop_loss)
        \/ w = "short" /\ f.position_type = "Short" /\ RLess(Whole(0), f.entry_price)
                       /\ RLeq(f.stop_loss, f.entry_price)
        \/ w = "percent" /\ f.risk_mode = "% of Account"
                         /\ ~(RLeq(MinRiskPercentage, f.risk_input)
                              /\ RLeq(f.risk_input, Whole(10)))}

\* warnings_list of the readiness check (lines 888-907), one tag a warning.
Warnings(f) ==
    {w \in {"account", "entry", "stop", "long", "short", "percent",
            "amount", "exceeds"} :
        \/ w = "account" /\ RLeq(f.account_size, Whole(0))
        \/ w = "entry" /\ RLeq(f.entry_price, Whole(0))
        \/ w = "stop" /\ RLeq(f.stop_loss, Whole(0))
        \/ w = "long" /\ f.position_type = "Long" /\ RLess(Whole(0), f.entry_price)
                      /\ RLeq(f.entry_price, f.stop_loss)
        \/ w = "short" /\ f.position_type = "Short" /\ RLess(Whole(0), f.entry_price)
                       /\ RLeq(f.stop_loss, f.entry_price)
        \/ w = "percent" /\ f.risk_mode = "% of Account"
                         /\ ~(RLeq(MinRiskPercentage, f.risk_input)
                              /\ RLeq(f.risk_input, Whole(10)))
        \/ w = "amount" /\ f.risk_mode # "% of Account"
                        /\ RLeq(f.risk_input, Whole(0))
        \/ w = "exceeds" /\ f.risk_mode # "% of Account"
                         /\ RLess(Whole(0), f.account_size)
                         /\ RLess(f.account_size, f.risk_input)}

\* is_ready = len(warnings_list) == 0 (line 909)
is_ready(f) == Warnings(f) = {}

\* The submit-time validation (lines 997-1020): the first error shown, ""
\* when the inputs pass.
SubmitError(f) ==
    IF RLeq(f.account_size, Whole(0)) THEN MsgAccount
    ELSE IF RLeq(f.entry_price, Whole(0)) THEN MsgEntry
    ELSE IF RLeq(f.stop_loss, Whole(0)) THEN MsgStop
    ELSE IF f.entry_price = f.stop_loss THEN MsgSame
    ELSE IF f.position_type = "Long" /\ RLeq(f.entry_price, f.stop_loss)
         THEN "For longs, stop must be BELOW entry."
    ELSE IF f.position_type = "Short" /\ RLeq(f.stop_loss, f.entry_price)
         THEN "For shorts, stop must be ABOVE entry."
    ELSE ""

\* Faulty variant: the record is appended twice.
SaveToHistory_Twice(h, f, r) ==
    LET calc == [position_type |-> f.position_type,
                 account_size |-> f.account_size, risk_mode |-> f.risk_mode,
                 risk_input |-> f.risk_input, entry_price |-> f.entry_price,
                 stop_loss |-> f.stop_loss, position_size |-> r.position_size,
                 position_size_rounded |-> r.position_size_rounded,
                 risk_amount |-> r.risk_amount, profit_1_1 |-> r.profit_1_1,
                 profit_2_1 |-> r.profit_2_1]
    IN  Append(Append(h, calc), calc)

\* st.session_state.history.append(calc) (lines 1097-1111)
SaveToHistory(h, f, r) ==
    LET calc == [position_type |-> f.position_type,
                 account_size |-> f.account_size, risk_mode |-> f.risk_mode,
                 risk_input |-> f.risk_input, entry_price |-> f.entry_price,
                 stop_loss |-> f.stop_loss, position_size |-> r.position_size,
                 position_size_rounded |-> r.position_size_rounded,
                 risk_amount |-> r.risk_amount, profit_1_1 |-> r.profit_1_1,
                 profit_2_1 |-> r.profit_2_1]
    IN  Append(h, calc)

\* calc_disabled as the run computes it before rendering the button
\* (lines 873-879); calc_disabled_until is 1 for a time still ahead of
\* time.time() and 0 for one that has passed.
ButtonDisabled == calc_loading \/ calc_disabled_until = 1

\* The Calculate button can be pressed: the latest run has rendered the
\* form, with the button enabled.
CanSubmit ==
    /\ pc = "app"
    /\ run.end \notin {"none", "cleared"}
    /\ ~calc_disabled

AppInit ==
    /\ pc = "app"
    /\ args = NoArgs
    /\ hargs = NoHelperArgs
    /\ outcome = NoOutcome
    /\ moves = NoOutcome
    /\ ratio = NoOutcome
    /\ form \in FormValues
    /\ calc_loading = FALSE
    /\ calc_disabled_until = 0
    /\ calc_disabled = FALSE
    /\ history = << >>
    /\ run = NoRun

\* The first part of every run (lines 593-917): the widgets are read, the
\* button is rendered and the readiness check is made; the preview call
\* follows when is_ready.
RunBegins(f, submitted, clear) ==
    /\ form' = f
    /\ calc_disabled' = ButtonDisabled
    /\ run' = [end |-> "running", submitted |-> submitted, clear |-> clear,
               is_ready |-> is_ready(f), preview |-> NoOutcome,
               results |-> NoOutcome]
    /\ pc' = IF is_ready(f) THEN "preview" ELSE "submit"
    /\ UNCHANGED <<calc_loading, calc_disabled_until, history>>
    /\ UNCHANGED coreVarsButPc

\* A run without a press: the first load, a rerun by another widget, or the
\* st.rerun() after the history was cleared.
Rerun ==
    /\ pc = "app"
    /\ RunBegins(form, FALSE, FALSE)

\* Calculate pressed with the form filled in.
PressCalculate ==
    /\ CanSubmit
    /\ Len(history) < MaxHistory
    /\ \E f \in FormValues : RunBegins(f, TRUE, FALSE)

\* "Clear All History" pressed: the button is on the page when the latest
\* run got as far as line 1156.
PressClear ==
    /\ pc = "app"
    /\ run.end \in {"idle", "results"}
    /\ RunBegins(form, FALSE, TRUE)

\* calculate_risk_reward is called: for the preview (lines 922-924, where
\* the handler of line 928 turns an exception into preview_results = None;
\* the model keeps what was raised) or for the results (lines 1024-1026).
CallCalculate ==
    /\ pc \in {"preview", "calculate"}
    /\ run' = [run EXCEPT ![IF pc = "preview" THEN "preview" ELSE "results"] =
                              Calculated(form)]
    /\ pc' = IF pc = "preview" THEN "submit" ELSE "calculated"
    /\ UNCHANGED <<form, calc_loading, calc_disabled_until, calc_disabled, history>>
    /\ UNCHANGED coreVarsButPc

\* Not submitted, nothing pressed: the run shows the placeholder and the
\* history and ends (lines 1112-1163).
RunIdle ==
    /\ pc = "submit"
    /\ ~run.submitted /\ ~run.clear
    /\ run' = [run EXCEPT !.end = "idle"]
    /\ pc' = "app"
    /\ UNCHANGED <<form, calc_loading, calc_disabled_until, calc_disabled, history>>
    /\ UNCHANGED coreVarsButPc

\* Not submitted, "Clear All History" pressed (lines 1156-1158).
ClearAllHistory ==
    /\ pc = "submit"
    /\ ~run.submitted /\ run.clear
    /\ history' = << >>
    /\ run' = [run EXCEPT !.end = "cleared"]
    /\ pc' = "app"
    /\ UNCHANGED <<form, calc_loading, calc_disabled_until, calc_disabled>>
    /\ UNCHANGED coreVarsButPc

\* A submit that finds calc_loading set: st.stop() (lines 991-992).
RunStopped ==
    /\ pc = "submit"
    /\ run.submitted
    /\ calc_loading
    /\ run' = [run EXCEPT !.end = "stopped"]
    /\ pc' = "app"
    /\ UNCHANGED <<form, calc_loading, calc_disabled_until, calc_disabled, history>>
    /\ UNCHANGED coreVarsButPc

\* A submit that fails the validation: calc_loading is set, the error is
\* shown, calc_loading is reset and the run stops (lines 993-1020).
RunInvalid ==
    /\ pc = "submit"
    /\ run.submitted
    /\ ~calc_loading
    /\ SubmitError(form) # ""
    /\ calc_loading' = FALSE
    /\ calc_disabled_until' = 1
    /\ run' = [run EXCEPT !.end = "invalid"]
    /\ pc' = "app"
    /\ UNCHANGED <<form, calc_disabled, history>>
    /\ UNCHANGED coreVarsButPc

\* A submit that passes the validation: calc_loading is set and the run
\* reaches the call of line 1024.
RunValid ==
    /\ pc = "submit"
    /\ run.submitted
    /\ ~calc_loading
    /\ SubmitError(form) = ""
    /\ calc_loading' = TRUE
    /\ calc_disabled_until' = 1
    /\ pc' = "calculate"
    /\ UNCHANGED <<form, calc_disabled, history, run>>
    /\ UNCHANGED coreVarsButPc

\* The call raised: the exception leaves the submit block at line 1024 and
\* is reported at lines 1165-1167.
RunRaised ==
    /\ pc = "calculated"
    /\ ~run.results.ok
    /\ run' = [run EXCEPT !.end = "raised"]
    /\ pc' = "app"
    /\ UNCHANGED <<form, calc_loading, calc_disabled_until, calc_disabled, history>>
    /\ UNCHANGED coreVarsButPc

\* The call returned: calc_loading is reset at line 1035, the results are
\* shown and the record is saved (lines 1028-1111).
RunResults ==
    /\ pc = "calculated"
    /\ run.results.ok
    /\ calc_loading' = FALSE
    /\ history' = SaveToHistory(history, form, run.results)
    /\ run' = [run EXCEPT !.end = "results"]
    /\ pc' = "app"
    /\ UNCHANGED <<form, calc_disabled_until, calc_disabled>>
    /\ UNCHANGED coreVarsButPc

\* Time passes: the 0.3 s after a submit are over.
Elapse ==
    /\ calc_disabled_until = 1
    /\ calc_disabled_until' = 0
    /\ UNCHANGED <<form, calc_loading, calc_disabled, history, run>>
    /\ UNCHANGED coreVars

AppNext ==
    \/ Rerun
    \/ PressCalculate
    \/ PressClear
    \/ CallCalculate
    \/ RunIdle
    \/ ClearAllHistory
    \/ RunStopped
    \/ RunInvalid
    \/ RunValid
    \/ RunRaised
    \/ RunResults
    \/ Elapse

AppSpec == AppInit /\ [][AppNext]_vars

(***************************************************************************)
(* demo_app.py: the submit block computes the position inline (lines       *)
(* 91-140) instead of calling calculate_risk_reward.  A failed check shows *)
(* st.error(msg) and ends the run with st.stop().                          *)
(***************************************************************************)
Stopped(msg) == [ok |-> FALSE, exc |-> "StopException", msg |-> msg]

\* Input validation (lines 93-104): the error shown, "" when none.
DemoValidation(account_size, entry_price, stop_loss) ==
    IF RLeq(account_size, Whole(0)) THEN MsgAccount
    ELSE IF RLeq(entry_price, Whole(0)) THEN MsgEntry
    ELSE IF RLeq(stop_loss, Whole(0)) THEN MsgStop
    ELSE IF entry_price = stop_loss THEN MsgSame
    ELSE ""

\* Risk validation (lines 107-119).
DemoRisk(risk_mode, account_size, risk_input) ==
    IF risk_mode = "% of Account"
    THEN IF RLeq(risk_input, Whole(0)) \/ RLess(Whole(100), risk_input)
         THEN Stopped(MsgPercent)
         ELSE [ok |-> TRUE,
               risk_amount |-> FMul(account_size, FDiv(risk_input, Whole(100)))]
    ELSE IF RLeq(risk_input, Whole(0)) THEN Stopped(MsgRiskPos)
    ELSE IF RLess(account_size, risk_input) THEN Stopped(MsgRiskExceed)
    ELSE [ok |-> TRUE, risk_amount |-> risk_input]

\* The position (lines 121-140); the percentage moves computed along with
\* it are displayed only.
DemoPosition(position_type, risk_amount, entry_price, stop_loss) ==
    IF position_type = "Long"
    THEN IF RLeq(entry_price, stop_loss) THEN Stopped(MsgLongOrder)
         ELSE LET position_size == FDiv(risk_amount, FSub(entry_price, stop_loss))
              IN  [ok |-> TRUE,
                   position_size    |-> position_size,
                   risk_amount      |-> risk_amount,
                   stop_loss_amount |-> FMul(position_size, FSub(entry_price, stop_loss)),
                   profit_1_1 |-> FAdd(entry_price, FSub(entry_price, stop_loss)),
                   profit_2_1 |-> FAdd(entry_price,
                                       FMul(Whole(2), FSub(entry_price, stop_loss)))]
    ELSE IF RLeq(stop_loss, entry_price) THEN Stopped(MsgShortOrder)
         ELSE LET position_size == FDiv(risk_amount, FSub(stop_loss, entry_price))
              IN  [ok |-> TRUE,
                   position_size    |-> position_size,
                   risk_amount      |-> risk_amount,
                   stop_loss_amount |-> FMul(position_size, FSub(stop_loss, entry_price)),
                   profit_1_1 |-> FSub(entry_price, FSub(stop_loss, entry_price)),
                   profit_2_1 |-> FSub(entry_price,
                                       FMul(Whole(2), FSub(stop_loss, entry_price)))]

DemoCalculation(position_type, account_size, risk_mode, risk_input, entry_price, stop_loss) ==
    LET invalid == DemoValidation(account_size, entry_price, stop_loss)
        risk    == DemoRisk(risk_mode, account_size, risk_input)
    IN  IF invalid # "" THEN Stopped(invalid)
        ELSE IF ~risk.ok THEN risk
        ELSE DemoPosition(position_type, risk.risk_amount, entry_price, stop_loss)

\* The demo's widgets: every number input has min_value 0.0, the risk
\* percentage has max_value 100.0 (lines 70-86).
DemoArgs ==
    {a \in Args :
        /\ RLeq(Whole(0), a.account_size)
        /\ RLeq(Whole(0), a.risk_input)
        /\ RLeq(Whole(0), a.entry_price)
        /\ RLeq(Whole(0), a.stop_loss)
        /\ a.risk_mode = "% of Account" => RLeq(a.risk_input, Whole(100))}

DemoInit ==
    /\ NoSession
    /\ pc = "demo"
    /\ args \in DemoArgs
    /\ hargs = NoHelperArgs
    /\ outcome = NoOutcome
    /\ moves = NoOutcome
    /\ ratio = NoOutcome

\* The form is submitted: outcome is what the inline calculation shows.
DemoSubmit ==
    /\ pc = "demo"
    /\ outcome' = DemoCalculation(args.position_type, args.account_size,
                                  args.risk_mode, args.risk_input,
                                  args.entry_price, args.stop_loss)
    /\ pc' = "demo_done"
    /\ UNCHANGED <<args, hargs, moves, ratio>>
    /\ UNCHANGED appVars

DemoNext == DemoSubmit

DemoSpec == DemoInit /\ [][DemoNext]_vars

(***************************************************************************)
(* Vocabulary of the properties: the call's arguments and how it ended.    *)
(***************************************************************************)
Zero == Whole(0)

Done == pc = "done"

Returned == Done /\ outcome.ok

RaisedWith(msg) ==
    Done /\ ~outcome.ok /\ outcome.exc = "ValueError" /\ outcome.msg = msg

IsLong == args.position_type = "Long"

IsShort == args.position_type = "Short"

IsPercent == args.risk_mode = "% of Account"

IsFixed == args.risk_mode = "Fixed $ Amount"

PositiveInputs ==
    /\ RLess(Zero, args.account_size)
    /\ RLess(Zero, args.entry_price)
    /\ RLess(Zero, args.stop_loss)

\* The risk input is in the range of its mode.
RiskInRange ==
    /\ RLess(Zero, args.risk_input)
    /\ IF IsPercent THEN RLeq(args.risk_input, Whole(100))
                    ELSE RLeq(args.risk_input, args.account_size)

\* The risk budget the inputs ask for, as a float (meaningful when
\* RiskInRange).
BudgetOf ==
    IF IsPercent THEN FMul(args.account_size, FDiv(args.risk_input, Whole(100)))
                 ELSE args.risk_input

\* |entry_price - stop_loss|, as a float
StopDistance ==
    IF RLess(args.stop_loss, args.entry_price)
    THEN FSub(args.entry_price, args.stop_loss)
    ELSE FSub(args.stop_loss, args.entry_price)

\* The budget buys, in float arithmetic, no more than 1,000,000 units at
\* this stop distance.
WithinCeiling == RLeq(FDiv(BudgetOf, StopDistance), Whole(MaxPositionSize))

ValidLong ==
    /\ IsLong /\ PositiveInputs
    /\ RLess(args.stop_loss, args.entry_price)
    /\ RiskInRange /\ WithinCeiling

ValidShort ==
    /\ IsShort /\ PositiveInputs
    /\ RLess(args.entry_price, args.stop_loss)
    /\ RiskInRange /\ WithinCeiling

(***************************************************************************)
(* C1: every valid Long setup returns position_size = risk_amount /        *)
(* (entry_price - stop_loss), profit_1_1 = entry_price + (entry_price -    *)
(* stop_loss) and profit_2_1 = entry_price + 2 * (entry_price - stop_loss),*)
(* each operation a float operation.                                       *)
(***************************************************************************)
C1_LongFormulas ==
    (Done /\ ValidLong) =>
        /\ outcome.ok
        /\ outcome.position_size = FDiv(outcome.risk_amount, StopDistance)
        /\ outcome.profit_1_1 = FAdd(args.entry_price, StopDistance)
        /\ outcome.profit_2_1
              = FAdd(args.entry_price, FMul(Whole(2), StopDistance))

\* A valid Long call has returned, with a fractional position size.
C1_Witness ==
    Done /\ ValidLong /\ outcome.ok /\ outcome.position_size.d > 1

(***************************************************************************)
(* C2: every valid Short setup returns position_size = risk_amount /       *)
(* (stop_loss - entry_price), profit_1_1 = entry_price - (stop_loss -      *)
(* entry_price) and profit_2_1 = entry_price - 2 * (stop_loss -            *)
(* entry_price), each operation a float operation.                         *)
(***************************************************************************)
C2_ShortFormulas ==
    (Done /\ ValidShort) =>
        /\ outcome.ok
        /\ outcome.position_size = FDiv(outcome.risk_amount, StopDistance)
        /\ outcome.profit_1_1 = FSub(args.entry_price, StopDistance)
        /\ outcome.profit_2_1
              = FSub(args.entry_price, FMul(Whole(2), StopDistance))

\* A valid Short call has returned, with a negative 2R target.
C2_Witness ==
    Done /\ ValidShort /\ outcome.ok /\ outcome.profit_2_1.n < 0

(***************************************************************************)
(* C3: on every successful call position_size_rounded is the floor of      *)
(* position_size: an integer with rounded <= position_size < rounded + 1.   *)
(***************************************************************************)
C3_RoundedIsFloor ==
    Returned =>
        /\ outcome.position_size_rounded \in Int
        /\ RLeq(Whole(outcome.position_size_rounded), outcome.position_size)
        /\ RLess(outcome.position_size, Whole(outcome.position_size_rounded + 1))

\* A call returned a position size whose fractional part is at least 1/2.
C3_Witness ==
    /\ Returned
    /\ outcome.position_size.d > 1
    /\ RLeq(Rat(1, 2), RSub(outcome.position_size,
                            Whole(outcome.position_size_rounded)))

(***************************************************************************)
(* C4: the call fails with a validation error, and returns nothing,        *)
(* whenever account_size <= 0, entry_price <= 0 or stop_loss <= 0, for     *)
(* either side and either risk mode; the error names an offending          *)
(* quantity (account size, entry price or stop loss).                      *)
(***************************************************************************)
C4_NonPositiveRejected ==
    (Done /\ ~PositiveInputs) =>
        /\ ~outcome.ok
        /\ outcome.exc = "ValueError"
        /\ \/ outcome.msg = MsgAccount /\ RLeq(args.account_size, Zero)
           \/ outcome.msg = MsgEntry /\ RLeq(args.entry_price, Zero)
           \/ outcome.msg = MsgStop /\ RLeq(args.stop_loss, Zero)

\* A Short, fixed-amount call whose only fault is a zero stop loss was rejected.
C4_Witness ==
    /\ RaisedWith(MsgStop)
    /\ IsShort /\ IsFixed /\ RiskInRange
    /\ RLess(Zero, args.account_size)
    /\ RLess(Zero, args.entry_price)
    /\ args.stop_loss = Zero

(***************************************************************************)
(* C5: with account_size, entry_price and stop_loss all positive, the call *)
(* fails with 'Entry price and stop loss cannot be the same.' whenever     *)
(* entry_price == stop_loss, for both sides and both risk modes.           *)
(***************************************************************************)
C5_EqualPricesRejected ==
    (Done /\ PositiveInputs /\ args.entry_price = args.stop_loss) =>
        RaisedWith(MsgSame)

\* A Short, fixed-amount call with entry == stop and an in-range risk was rejected.
C5_Witness ==
    /\ RaisedWith(MsgSame)
    /\ IsShort /\ IsFixed /\ RiskInRange
    /\ args.entry_price = args.stop_loss

(***************************************************************************)
(* C6: with all other inputs valid (positive quantities, entry # stop      *)
(* for the message, risk input in range) a Long fails unless entry_price > *)
(* stop_loss and a Short fails unless entry_price < stop_loss; the error   *)
(* names the violated ordering.                                            *)
(***************************************************************************)
C6_SideOrdering ==
    (Done /\ PositiveInputs /\ RiskInRange) =>
        /\ (IsLong /\ ~RLess(args.stop_loss, args.entry_price)) => ~outcome.ok
        /\ (IsShort /\ ~RLess(args.entry_price, args.stop_loss)) => ~outcome.ok
        /\ (IsLong /\ RLess(args.entry_price, args.stop_loss))
              => RaisedWith(MsgLongOrder)
        /\ (IsShort /\ RLess(args.stop_loss, args.entry_price))
              => RaisedWith(MsgShortOrder)

\* A Short call with its stop below entry was rejected with the short-ordering error.
C6_Witness ==
    /\ RaisedWith(MsgShortOrder)
    /\ IsShort /\ PositiveInputs /\ RiskInRange
    /\ RLess(args.stop_loss, args.entry_price)

(***************************************************************************)
(* C7: in '% of Account' mode, other inputs valid, the call fails with     *)
(* 'Risk percentage must be between 0 and 100.' exactly when risk_input <= *)
(* 0 or risk_input > 100; every 0 < risk_input <= 100 passes this check.   *)
(***************************************************************************)
C7_PercentRange ==
    (Done /\ IsPercent /\ PositiveInputs /\ args.entry_price # args.stop_loss) =>
        (RaisedWith(MsgPercent)
            <=> (RLeq(args.risk_input, Zero) \/ RLess(Whole(100), args.risk_input)))

\* A percent-mode call with risk_input = 101 and otherwise valid inputs was rejected.
C7_Witness ==
    /\ RaisedWith(MsgPercent)
    /\ IsPercent /\ PositiveInputs
    /\ RLess(args.stop_loss, args.entry_price) /\ IsLong
    /\ args.risk_input = Whole(101)

C9_FixedRange ==
    (Done /\ IsFixed /\ PositiveInputs /\ args.entry_price # args.stop_loss) =>
        /\ RLeq(args.risk_input, Zero) => RaisedWith(MsgRiskPos)
        /\ RLess(args.account_size, args.risk_input) => RaisedWith(MsgRiskExceed)
        /\ RiskInRange =>
              /\ ~RaisedWith(MsgRiskPos)
              /\ ~RaisedWith(MsgRiskExceed)
              /\ outcome.ok => outcome.risk_amount = args.risk_input
              /\ (ValidLong \/ ValidShort) => outcome.ok

\* A fixed-amount call risking the whole account returned that amount as risk.
C9_Witness ==
    /\ Returned /\ IsFixed
    /\ args.risk_input = args.account_size
    /\ outcome.risk_amount = args.risk_input

(***************************************************************************)
(* C10: when every input check passes and the position size exceeds        *)
(* 1,000,000 the call fails with the position-size-ceiling error, which    *)
(* differs from every input-validation error; a position size of exactly   *)
(* 1,000,000 or less is not rejected.  Long and Short alike.               *)
(***************************************************************************)
InputCheckMessages ==
    {MsgAccount, MsgEntry, MsgStop, MsgSame, MsgPercent, MsgRiskPos,
     MsgRiskExceed, MsgLongOrder, MsgShortOrder}

\* Every input check passes: positive quantities, risk in range, stop on the right side.
InputChecksPass ==
    /\ PositiveInputs /\ RiskInRange
    /\ \/ IsLong /\ RLess(args.stop_loss, args.entry_price)
       \/ IsShort /\ RLess(args.entry_price, args.stop_loss)

C10_Ceiling ==
    /\ (Done /\ InputChecksPass) =>
          /\ ~WithinCeiling =>
                /\ RaisedWith(MsgCeiling)
                /\ outcome.msg \notin InputCheckMessages
          /\ WithinCeiling => outcome.ok
          /\ outcome.ok => RLeq(outcome.position_size, Whole(MaxPositionSize))
    /\ (Done /\ ~outcome.ok /\ ~InputChecksPass) =>
          outcome.msg \in InputCheckMessages

\* A Short call that passed every input check was rejected for its position size.
C10_Witness ==
    RaisedWith(MsgCeiling) /\ IsShort /\ InputChecksPass /\ ~WithinCeiling

(***************************************************************************)
(* C11: every result returned by calculate_risk_reward has position_size   *)
(* >= 0, position_size_rounded >= 0, risk_amount >= 0 and stop_loss_amount *)
(* >= 0; the profit targets are free in sign: a valid Short whose          *)
(* stop_loss is more than twice entry_price is accepted and returns a      *)
(* negative profit_1_1.                                                    *)
(***************************************************************************)
StopBeyondTwiceEntry == RLess(RMul(Whole(2), args.entry_price), args.stop_loss)

C11_NonNegativeFields ==
    /\ Returned =>
          /\ RLeq(Zero, outcome.position_size)
          /\ outcome.position_size_rounded >= 0
          /\ RLeq(Zero, outcome.risk_amount)
          /\ RLeq(Zero, outcome.stop_loss_amount)
    /\ (Done /\ ValidShort /\ StopBeyondTwiceEntry) =>
          outcome.ok /\ RLess(outcome.profit_1_1, Zero)

\* A valid Short with its stop beyond twice the entry returned a negative 1R target.
C11_Witness ==
    /\ Returned /\ ValidShort /\ StopBeyondTwiceEntry
    /\ RLess(outcome.profit_1_1, Zero)
    /\ RLess(Zero, outcome.position_size)

(***************************************************************************)
(* C12: on every successful call stop_loss_amount = position_size *        *)
(* |entry_price - stop_loss|, and therefore stop_loss_amount equals        *)
(* risk_amount exactly, in both risk modes and for both sides.             *)
(***************************************************************************)
C12_LossIsExactlyBudget ==
    Returned =>
        /\ outcome.stop_loss_amount = FMul(outcome.position_size, StopDistance)
        /\ outcome.stop_loss_amount = outcome.risk_amount

\* x is y up to the rounding of two float operations: x / y is within
\* 3 * 2^-FloatBits of 1 (x, y positive).
WithinRounding(x, y) ==
    LET q == RDiv(x, y)
    IN  /\ RLeq(Rat(Pow2(FloatBits) - 3, Pow2(FloatBits)), q)
        /\ RLeq(q, Rat(Pow2(FloatBits) + 3, Pow2(FloatBits)))

(***************************************************************************)
(* C12 as amended: on every successful call stop_loss_amount is the float  *)
(* product position_size * |entry_price - stop_loss|; it equals            *)
(* risk_amount up to the rounding of the division and the multiplication   *)
(* (a relative error of at most 3 * 2^-FloatBits), not always exactly.     *)
(***************************************************************************)
C12_LossIsBudgetUpToRounding ==
    Returned =>
        /\ outcome.stop_loss_amount = FMul(outcome.position_size, StopDistance)
        /\ WithinRounding(outcome.stop_loss_amount, outcome.risk_amount)

\* A Short call in fixed-amount mode returned a loss at the stop that is not
\* the risk budget.
C12_Witness ==
    /\ Returned /\ IsShort /\ IsFixed
    /\ outcome.stop_loss_amount # outcome.risk_amount
    /\ WithinRounding(outcome.stop_loss_amount, outcome.risk_amount)

(***************************************************************************)
(* Vocabulary of the helper calls.                                         *)
(***************************************************************************)
HelperRated == pc = "helper_rated"

HelperMoved == pc = "helper_moved"

HelperLong == hargs.position_type = "Long"

HelperShort == hargs.position_type = "Short"

\* The stop is on the losing side of entry for the helper's side.
HelperOrdered ==
    \/ HelperLong /\ RLess(hargs.stop_loss, hargs.entry_price)
    \/ HelperShort /\ RLess(hargs.entry_price, hargs.stop_loss)

\* The target is on the losing side of entry for the helper's side.
TargetOnLosingSide ==
    \/ HelperLong /\ RLess(hargs.target, hargs.entry_price)
    \/ HelperShort /\ RLess(hargs.entry_price, hargs.target)

\* The direction-aware reward: target - entry for Long, entry - target for Short.
HelperReward ==
    IF HelperLong THEN FSub(hargs.target, hargs.entry_price)
                  ELSE FSub(hargs.entry_price, hargs.target)

\* |entry_price - stop_loss| of the helper call, as a float.
HelperDistance ==
    IF RLess(hargs.stop_loss, hargs.entry_price)
    THEN FSub(hargs.entry_price, hargs.stop_loss)
    ELSE FSub(hargs.stop_loss, hargs.entry_price)

Sign(x) == IF x.n > 0 THEN 1 ELSE IF x.n < 0 THEN -1 ELSE 0

(***************************************************************************)
(* C13: calculate_risk_reward_ratio returns exactly 0 and never raises     *)
(* when entry_price == stop_loss, for every profit_target and both sides.  *)
(***************************************************************************)
C13_ZeroRiskGivesZero ==
    (HelperRated /\ hargs.entry_price = hargs.stop_loss) =>
        ratio.ok /\ ratio.value = Zero

\* A Short ratio call with entry == stop and a target away from entry returned 0.
C13_Witness ==
    /\ HelperRated /\ HelperShort
    /\ hargs.entry_price = hargs.stop_loss
    /\ hargs.target # hargs.entry_price
    /\ ratio.ok /\ ratio.value = Zero

(***************************************************************************)
(* C14: for a correctly ordered setup calculate_risk_reward_ratio returns  *)
(* (profit_target - entry) / (entry - stop) for Long and (entry -          *)
(* profit_target) / (stop - entry) for Short, in float arithmetic; the     *)
(* result is negative exactly when the target is on the losing side of     *)
(* entry, zero when the target equals entry, and no error is raised.       *)
(***************************************************************************)
C14_OrderedRatio ==
    (HelperRated /\ HelperOrdered) =>
        /\ ratio.ok
        /\ ratio.value = FDiv(HelperReward, HelperDistance)
        /\ RLess(ratio.value, Zero) <=> TargetOnLosingSide
        /\ hargs.target = hargs.entry_price => ratio.value = Zero

\* A correctly ordered Short with its target above entry returned a negative ratio.
C14_Witness ==
    /\ HelperRated /\ HelperShort /\ HelperOrdered /\ TargetOnLosingSide
    /\ ratio.ok /\ RLess(ratio.value, Zero)

(***************************************************************************)
(* C15: calculate_risk_reward_ratio uses risk = |entry_price - stop_loss|: *)
(* for every entry_price # stop_loss, either side and any profit_target,   *)
(* a stop on the wrong side of entry included, the divisor is positive and *)
(* the returned ratio has the sign of the direction-aware reward.          *)
(***************************************************************************)
C15_AbsoluteRisk ==
    (HelperRated /\ hargs.entry_price # hargs.stop_loss) =>
        /\ ratio.ok
        /\ ratio.value = FDiv(HelperReward, HelperDistance)
        /\ Sign(ratio.value) = Sign(HelperReward)

(***************************************************************************)
(* C15 as amended: calculate_risk_reward_ratio uses the signed risk entry  *)
(* - stop for Long and stop - entry for Short.  For entry_price #          *)
(* stop_loss the divisor is positive and the ratio has the sign of the     *)
(* direction-aware reward when the stop is on the correct side; when the   *)
(* stop is on the wrong side the divisor is -|entry - stop| and the ratio  *)
(* has the opposite sign.  No error is raised.                             *)
(***************************************************************************)
C15_SignedRisk ==
    (HelperRated /\ hargs.entry_price # hargs.stop_loss) =>
        /\ ratio.ok
        /\ HelperOrdered =>
              /\ ratio.value = FDiv(HelperReward, HelperDistance)
              /\ Sign(ratio.value) = Sign(HelperReward)
        /\ ~HelperOrdered =>
              /\ ratio.value = FDiv(HelperReward, RNeg(HelperDistance))
              /\ Sign(ratio.value) = -Sign(HelperReward)

\* A Long with its stop above entry and its target above entry returned a
\* negative ratio.
C15_Witness ==
    /\ HelperRated /\ HelperLong
    /\ RLess(hargs.entry_price, hargs.stop_loss)
    /\ RLess(hargs.entry_price, hargs.target)
    /\ ratio.ok /\ RLess(ratio.value, Zero)

(***************************************************************************)
(* Vocabulary of the calculation path: the ratio of one of the             *)
(* calculation's own targets.                                              *)
(***************************************************************************)
Rated == pc = "rated"

RatedTarget1 == Rated /\ hargs.target = outcome.profit_1_1

RatedTarget2 == Rated /\ hargs.target = outcome.profit_2_1

\* The reward the ratio recomputes from the target it is given.
AppReward ==
    IF IsLong THEN FSub(hargs.target, args.entry_price)
              ELSE FSub(args.entry_price, hargs.target)

\* entry_price plus (Long) or minus (Short) k stop distances, not rounded.
ExactTarget(k) ==
    IF IsLong THEN RAdd(args.entry_price, RMul(Whole(k), StopDistance))
              ELSE RSub(args.entry_price, RMul(Whole(k), StopDistance))

(***************************************************************************)
(* C16: feeding calculate_risk_reward's own targets back into              *)
(* calculate_risk_reward_ratio with the same entry, stop and side returns  *)
(* exactly 1 for profit_1_1 and exactly 2 for profit_2_1, for every valid  *)
(* Long and Short setup.                                                   *)
(***************************************************************************)
C16_ExactRoundTrip ==
    /\ RatedTarget1 => ratio.ok /\ ratio.value = Whole(1)
    /\ RatedTarget2 => ratio.ok /\ ratio.value = Whole(2)

(***************************************************************************)
(* C16 as amended: the round trip returns the float quotient of the        *)
(* recomputed reward and the stop distance, never negative and never an    *)
(* error; it is exactly 1 for profit_1_1 and exactly 2 for profit_2_1      *)
(* whenever the target was computed without rounding (entry plus or minus  *)
(* one or two stop distances is a float), and need not be otherwise.       *)
(***************************************************************************)
C16_RoundTripUpToRounding ==
    /\ Rated =>
          /\ ratio.ok
          /\ ratio.value = FDiv(AppReward, StopDistance)
          /\ RLeq(Zero, ratio.value)
    /\ (RatedTarget1 /\ IsFloat(ExactTarget(1))) => ratio.value = Whole(1)
    /\ (RatedTarget2 /\ IsFloat(ExactTarget(2))) => ratio.value = Whole(2)

\* The 1R target of a valid Long was rounded and its ratio is not 1.
C16_Witness ==
    /\ RatedTarget1 /\ IsLong
    /\ ~IsFloat(ExactTarget(1))
    /\ ratio.ok /\ ratio.value # Whole(1)

(***************************************************************************)
(* Vocabulary of the calculation path: the percentage moves of the         *)
(* calculation's 1R target.                                                *)
(***************************************************************************)
Moved == pc = "moved"

\* (|entry - stop| / entry) * 100 in float arithmetic.
PctOfEntry(distance) ==
    FMul(FDiv(distance, args.entry_price), Whole(100))

\* The distance from entry to the returned 1R target, as the helper recomputes it.
TargetDistance ==
    IF IsLong THEN FSub(outcome.profit_1_1, args.entry_price)
              ELSE FSub(args.entry_price, outcome.profit_1_1)

(***************************************************************************)
(* C17: for a valid setup and the profit_1_1 returned by                   *)
(* calculate_risk_reward, calculate_percentage_moves returns two strictly  *)
(* positive values, pct_drop_to_stop = (entry - stop) / entry * 100 for    *)
(* Long and (stop - entry) / entry * 100 for Short, and pct_move_to_1_1    *)
(* equal to the same value.                                                *)
(***************************************************************************)
C17_MovesEqual ==
    Moved =>
        /\ moves.ok
        /\ RLess(Zero, moves.pct_drop_to_stop)
        /\ RLess(Zero, moves.pct_move_to_1_1)
        /\ moves.pct_drop_to_stop = PctOfEntry(StopDistance)
        /\ moves.pct_move_to_1_1 = moves.pct_drop_to_stop

(***************************************************************************)
(* C17 as amended: calculate_percentage_moves returns a strictly positive  *)
(* pct_drop_to_stop = (entry - stop) / entry * 100 for Long and (stop -    *)
(* entry) / entry * 100 for Short, and a non-negative pct_move_to_1_1      *)
(* computed the same way from the distance between entry and the returned  *)
(* profit_1_1; the two are equal whenever profit_1_1 was computed without  *)
(* rounding, and need not be otherwise.                                    *)
(***************************************************************************)
C17_MovesUpToRounding ==
    Moved =>
        /\ moves.ok
        /\ RLess(Zero, moves.pct_drop_to_stop)
        /\ RLeq(Zero, moves.pct_move_to_1_1)
        /\ moves.pct_drop_to_stop = PctOfEntry(StopDistance)
        /\ moves.pct_move_to_1_1 = PctOfEntry(TargetDistance)
        /\ IsFloat(ExactTarget(1)) =>
              moves.pct_move_to_1_1 = moves.pct_drop_to_stop

\* The 1R target of a valid Long was rounded and the two moves differ, both positive.
C17_Witness ==
    /\ Moved /\ IsLong /\ ~IsFloat(ExactTarget(1))
    /\ moves.ok
    /\ RLess(Zero, moves.pct_move_to_1_1)
    /\ moves.pct_move_to_1_1 # moves.pct_drop_to_stop

(***************************************************************************)
(* C18: calculate_percentage_moves validates nothing: called on its own    *)
(* with entry_price == 0 it fails with a division-by-zero error on both    *)
(* sides instead of returning, and with any other entry_price it returns;  *)
(* after a successful calculate_risk_reward, which rejects entry_price <=  *)
(* 0, that failure cannot happen.                                          *)
(***************************************************************************)
C18_ZeroEntryDivides ==
    /\ (HelperMoved /\ hargs.entry_price = Zero) =>
          /\ ~moves.ok
          /\ moves.exc = "ZeroDivisionError"
    /\ (HelperMoved /\ hargs.entry_price # Zero) => moves.ok
    /\ pc \in {"moved", "rated"} =>
          /\ RLess(Zero, args.entry_price)
          /\ moves.ok

\* A Short percentage-moves call on its own with entry_price == 0 raised
\* ZeroDivisionError.
C18_Witness ==
    /\ HelperMoved /\ HelperShort
    /\ hargs.entry_price = Zero
    /\ ~moves.ok /\ moves.exc = "ZeroDivisionError"

(***************************************************************************)
(* Vocabulary of the comparison of the two risk modes.                     *)
(***************************************************************************)
\* account_size * risk_input / 100, not rounded.
ExactBudget == RDiv(RMul(args.account_size, args.risk_input), Whole(100))

\* The same setup sized in 'Fixed $ Amount' mode with the amount D.
FixedTwin(D) ==
    calculate_risk_reward(args.position_type, args.account_size,
                          "Fixed $ Amount", D, args.entry_price, args.stop_loss)

\* The same fixed-amount setup on another account size that covers the amount.
AccountIndependent ==
    \A a \in AccountSizes :
        RLeq(args.risk_input, a) =>
            calculate_risk_reward(args.position_type, a, args.risk_mode,
                                  args.risk_input, args.entry_price,
                                  args.stop_loss) = outcome

(***************************************************************************)
(* C21: for a valid setup, 'Fixed $ Amount' mode with risk_input = D       *)
(* returns the same six values as '% of Account' mode with the percentage  *)
(* p for which account_size * p / 100 = D, and in Fixed mode changing      *)
(* account_size (while D <= account_size) changes no returned value.       *)
(***************************************************************************)
C21_ModesAgreeExactly ==
    /\ (Returned /\ IsPercent /\ IsFloat(ExactBudget)) =>
          FixedTwin(ExactBudget) = outcome
    /\ (Returned /\ IsFixed) => AccountIndependent

(***************************************************************************)
(* C21 as amended: 'Fixed $ Amount' mode with risk_input = D returns the   *)
(* same six values as '% of Account' mode with percentage p whenever D is  *)
(* the float account_size * (p / 100) that the percent mode computes,      *)
(* which is account_size * p / 100 only up to rounding; and in Fixed mode  *)
(* changing account_size (while D <= account_size) changes no returned     *)
(* value.                                                                  *)
(***************************************************************************)
C21_ModesAgreeOnFloatBudget ==
    /\ (Returned /\ IsPercent) =>
          /\ FixedTwin(outcome.risk_amount) = outcome
          /\ WithinRounding(outcome.risk_amount, ExactBudget)
    /\ (Returned /\ IsFixed) => AccountIndependent

\* A percent-mode call returned a risk amount that is not account_size * p /
\* 100 although that is a float; the fixed mode on the returned amount agrees.
C21_Witness ==
    /\ Returned /\ IsPercent /\ IsFloat(ExactBudget)
    /\ outcome.risk_amount # ExactBudget
    /\ FixedTwin(outcome.risk_amount) = outcome
    /\ FixedTwin(ExactBudget) # outcome

(***************************************************************************)
(* C22: calculate_risk_reward has no minimum position size: whenever a     *)
(* valid setup yields 0 < position_size < 1 the call succeeds and returns  *)
(* position_size_rounded = 0 together with the positive fractional         *)
(* position_size.                                                          *)
(***************************************************************************)
\* The position size the valid inputs buy is below one unit.
BelowOneUnit == RLess(FDiv(BudgetOf, StopDistance), Whole(1))

C22_NoMinimumSize ==
    (Done /\ (ValidLong \/ ValidShort) /\ BelowOneUnit) =>
        /\ outcome.ok
        /\ outcome.position_size_rounded = 0
        /\ outcome.position_size = FDiv(BudgetOf, StopDistance)
        /\ RLess(Zero, outcome.position_size)
        /\ RLess(outcome.position_size, Whole(1))

\* A valid Short in fixed-amount mode returned a position below one unit,
\* rounded to 0.
C22_Witness ==
    /\ Returned /\ ValidShort /\ IsFixed /\ BelowOneUnit
    /\ outcome.position_size_rounded = 0
    /\ RLess(Zero, outcome.position_size)

(***************************************************************************)
(* C23: when several preconditions are violated at once the error is that  *)
(* of the first violated check in the order account size, entry price,     *)
(* stop loss, entry == stop, risk input, side ordering, position-size      *)
(* ceiling.  In particular entry == stop never reports a side-ordering     *)
(* message, and a risk-input violation is reported before a wrong-side     *)
(* stop.                                                                   *)
(***************************************************************************)
RiskViolation ==
    IF IsPercent
    THEN IF RLeq(args.risk_input, Zero) \/ RLess(Whole(100), args.risk_input)
         THEN MsgPercent ELSE ""
    ELSE IF RLeq(args.risk_input, Zero) THEN MsgRiskPos
         ELSE IF RLess(args.account_size, args.risk_input) THEN MsgRiskExceed
         ELSE ""

WrongSide ==
    \/ IsLong /\ RLess(args.entry_price, args.stop_loss)
    \/ IsShort /\ RLess(args.stop_loss, args.entry_price)

\* The message of the first violated check in the fixed order, "" if none.
FirstViolation ==
    IF RLeq(args.account_size, Zero) THEN MsgAccount
    ELSE IF RLeq(args.entry_price, Zero) THEN MsgEntry
    ELSE IF RLeq(args.stop_loss, Zero) THEN MsgStop
    ELSE IF args.entry_price = args.stop_loss THEN MsgSame
    ELSE IF RiskViolation # "" THEN RiskViolation
    ELSE IF WrongSide THEN (IF IsLong THEN MsgLongOrder ELSE MsgShortOrder)
    ELSE IF ~WithinCeiling THEN MsgCeiling
    ELSE ""

C23_FirstViolationReported ==
    /\ Done => IF FirstViolation = "" THEN outcome.ok
                                      ELSE RaisedWith(FirstViolation)
    /\ (Done /\ args.entry_price = args.stop_loss) =>
          /\ ~outcome.ok
          /\ outcome.msg \notin {MsgLongOrder, MsgShortOrder}
          /\ PositiveInputs => outcome.msg = MsgSame
    /\ (Done /\ PositiveInputs /\ args.entry_price # args.stop_loss
             /\ RiskViolation # "" /\ WrongSide) =>
          RaisedWith(RiskViolation)

\* A Short with its stop below entry and a risk percentage above 100 was
\* rejected for the percentage.
C23_Witness ==
    /\ RaisedWith(MsgPercent)
    /\ IsShort /\ IsPercent /\ PositiveInputs /\ WrongSide
    /\ RLess(Whole(100), args.risk_input)

(***************************************************************************)
(* C24: profit targets lie strictly on the profitable side of entry: every *)
(* successful Long has 0 < entry_price < profit_1_1 < profit_2_1, every    *)
(* successful Short has profit_2_1 < profit_1_1 < entry_price, and         *)
(* profit_2_1 - entry_price = 2 * (profit_1_1 - entry_price) in both.      *)
(***************************************************************************)
TwiceAsFar ==
    RSub(outcome.profit_2_1, args.entry_price)
        = RMul(Whole(2), RSub(outcome.profit_1_1, args.entry_price))

C24_StrictTargets ==
    /\ (Returned /\ IsLong) =>
          /\ RLess(Zero, args.entry_price)
          /\ RLess(args.entry_price, outcome.profit_1_1)
          /\ RLess(outcome.profit_1_1, outcome.profit_2_1)
    /\ (Returned /\ IsShort) =>
          /\ RLess(outcome.profit_2_1, outcome.profit_1_1)
          /\ RLess(outcome.profit_1_1, args.entry_price)
    /\ Returned => TwiceAsFar

(***************************************************************************)
(* C24 as amended: every successful Long has 0 < entry_price <= profit_1_1 *)
(* <= profit_2_1 with entry_price < profit_2_1, and every successful Short *)
(* has profit_2_1 < profit_1_1 < entry_price; whenever both targets were   *)
(* computed without rounding the inequalities are strict and profit_2_1 -  *)
(* entry_price = 2 * (profit_1_1 - entry_price).                           *)
(***************************************************************************)
C24_TargetsUpToRounding ==
    /\ (Returned /\ IsLong) =>
          /\ RLess(Zero, args.entry_price)
          /\ RLeq(args.entry_price, outcome.profit_1_1)
          /\ RLeq(outcome.profit_1_1, outcome.profit_2_1)
          /\ RLess(args.entry_price, outcome.profit_2_1)
    /\ (Returned /\ IsShort) =>
          /\ RLess(outcome.profit_2_1, outcome.profit_1_1)
          /\ RLess(outcome.profit_1_1, args.entry_price)
    /\ (Returned /\ IsFloat(ExactTarget(1)) /\ IsFloat(ExactTarget(2))) =>
          /\ TwiceAsFar
          /\ outcome.profit_1_1 # args.entry_price
          /\ outcome.profit_1_1 # outcome.profit_2_1

\* A successful Long whose 1R target was rounded back onto its entry price.
C24_Witness ==
    /\ Returned /\ IsLong
    /\ outcome.profit_1_1 = args.entry_price
    /\ RLess(args.entry_price, outcome.profit_2_1)

(***************************************************************************)
(* C25: every successful result satisfies 0 < risk_amount <= account_size, *)
(* and the loss realised at the stop with the rounded size never exceeds   *)
(* the budget: position_size_rounded * |entry_price - stop_loss| <=        *)
(* risk_amount.                                                            *)
(***************************************************************************)
\* position_size_rounded * |entry_price - stop_loss|, as a float product.
RoundedLoss == FMul(Whole(outcome.position_size_rounded), StopDistance)

C25_RoundedLossWithinBudget ==
    Returned =>
        /\ RLess(Zero, outcome.risk_amount)
        /\ RLeq(outcome.risk_amount, args.account_size)
        /\ RLeq(RoundedLoss, outcome.risk_amount)

(***************************************************************************)
(* C25 as amended: every successful result satisfies 0 < risk_amount <=    *)
(* account_size, and the loss at the stop with the rounded size is at most *)
(* the returned stop_loss_amount, which is the budget risk_amount up to    *)
(* rounding: it can exceed the budget by rounding error only, not by       *)
(* having rounded the size up.                                             *)
(***************************************************************************)
C25_RoundedLossUpToRounding ==
    Returned =>
        /\ RLess(Zero, outcome.risk_amount)
        /\ RLeq(outcome.risk_amount, args.account_size)
        /\ RLeq(Whole(outcome.position_size_rounded), outcome.position_size)
        /\ RLeq(RoundedLoss, outcome.stop_loss_amount)
        /\ WithinRounding(outcome.stop_loss_amount, outcome.risk_amount)

\* A successful call whose loss at the stop with the rounded size is above
\* the risk budget, by rounding only.
C25_Witness ==
    /\ Returned
    /\ RLess(outcome.risk_amount, RoundedLoss)
    /\ RLeq(RoundedLoss, outcome.stop_loss_amount)
    /\ WithinRounding(outcome.stop_loss_amount, outcome.risk_amount)

(***************************************************************************)
(* C26: unknown enum values are not rejected.  Any position_type other     *)
(* than "Long" is processed with the Short rules (a success requires       *)
(* entry < stop and has its targets below entry; the outcome is the one of *)
(* the same call with "Short"), any risk_mode other than "% of Account" is *)
(* processed with the Fixed-dollar rules (the outcome is the one of the    *)
(* same call with "Fixed $ Amount"), and both helpers treat every          *)
(* position_type other than "Long" as Short.  Checked under LooseSpec.     *)
(***************************************************************************)
AsShort(position_type) == IF position_type = "Long" THEN "Long" ELSE "Short"

AsFixed(risk_mode) ==
    IF risk_mode = "% of Account" THEN "% of Account" ELSE "Fixed $ Amount"

C26_UnknownEnumsFallThrough ==
    /\ Done =>
          /\ outcome = calculate_risk_reward(AsShort(args.position_type),
                           args.account_size, AsFixed(args.risk_mode),
                           args.risk_input, args.entry_price, args.stop_loss)
          /\ (outcome.ok /\ args.position_type # "Long") =>
                /\ RLess(args.entry_price, args.stop_loss)
                /\ RLess(outcome.profit_1_1, args.entry_price)
                /\ RLess(outcome.profit_2_1, args.entry_price)
          /\ (outcome.ok /\ args.risk_mode # "% of Account") =>
                outcome.risk_amount = args.risk_input
    /\ pc = "helper_moved" =>
          moves = calculate_percentage_moves(hargs.entry_price, hargs.stop_loss,
                      hargs.target, AsShort(hargs.position_type))
    /\ pc = "helper_rated" =>
          ratio = calculate_risk_reward_ratio(hargs.entry_price, hargs.stop_loss,
                      hargs.target, AsShort(hargs.position_type))

\* A successful call with a position type and a risk mode outside the
\* declared literals.
C26_Witness ==
    /\ Returned
    /\ args.position_type \notin PositionTypes
    /\ args.risk_mode \notin RiskModes
    /\ RLess(args.entry_price, args.stop_loss)
    /\ outcome.risk_amount = args.risk_input

(***************************************************************************)
(* C27: in app.py, calc_loading is False at the end of every script run:   *)
(* a submitted run that sets it resets it before the run ends, whether the *)
(* run ends with results, with a submit-time validation error or with an   *)
(* error raised by calculate_risk_reward, so the Calculate button is never *)
(* left disabled by calc_loading.  Checked under AppSpec.                  *)
(***************************************************************************)
C27_LoadingResetAfterRun == pc = "app" => ~calc_loading


\* A submit whose calculate_risk_reward call raised has left calc_loading
\* set, and the button is rendered disabled from then on.
C27_StuckLoading ==
    pc = "app" /\ calc_loading /\ calc_disabled /\ run.end = "idle"

(***************************************************************************)
(* C28: in app.py, history changes only in two ways: a submitted run that  *)
(* completes calculate_risk_reward successfully appends exactly one record *)
(* holding that run's inputs and results, and "Clear All History" replaces *)
(* it with the empty list; a run that is not submitted, or that stops on a *)
(* validation error or an exception, leaves history unchanged; so every    *)
(* stored record has entry_price # stop_loss with the ordering required by *)
(* its position_type.  Checked under AppSpec.                              *)
(***************************************************************************)
Holds(rec, f, r) ==
    /\ rec.position_type = f.position_type
    /\ rec.account_size = f.account_size
    /\ rec.risk_mode = f.risk_mode
    /\ rec.risk_input = f.risk_input
    /\ rec.entry_price = f.entry_price
    /\ rec.stop_loss = f.stop_loss
    /\ rec.position_size = r.position_size
    /\ rec.position_size_rounded = r.position_size_rounded
    /\ rec.risk_amount = r.risk_amount
    /\ rec.profit_1_1 = r.profit_1_1
    /\ rec.profit_2_1 = r.profit_2_1

RecordOrdered(rec) ==
    /\ rec.entry_price # rec.stop_loss
    /\ rec.position_type = "Long" => RLess(rec.stop_loss, rec.entry_price)
    /\ rec.position_type = "Short" => RLess(rec.entry_price, rec.stop_loss)

\* A step of a run that ends it.
RunEnds(end) == pc # "app" /\ pc' = "app" /\ run'.end = end

HistoryStep ==
    /\ history' # history => RunEnds("results") \/ RunEnds("cleared")
    /\ RunEnds("cleared") => ~run.submitted /\ history' = << >>
    /\ (pc = "calculated" /\ run.results.ok /\ pc' # pc) => RunEnds("results")
    /\ (pc' = "app" /\ run'.end \in {"idle", "stopped", "invalid", "raised"}) =>
          history' = history
    /\ RunEnds("results") =>
          /\ run.submitted
          /\ run.results.ok
          /\ run.results = calculate_risk_reward(form.position_type,
                 form.account_size, form.risk_mode, form.risk_input,
                 form.entry_price, form.stop_loss)
          /\ Len(history') = Len(history) + 1
          /\ SubSeq(history', 1, Len(history)) = history
          /\ Holds(history'[Len(history')], form, run.results)

C28_HistoryFrame ==
    /\ [][HistoryStep]_vars
    /\ [](\A i \in 1 .. Len(history) : RecordOrdered(history[i]))

\* Two records have been saved, the latest by the run just ended.
C28_Witness ==
    /\ pc = "app"
    /\ run.end = "results"
    /\ Len(history) = 2
    /\ Holds(history[2], form, run.results)
    /\ RecordOrdered(history[2])

(***************************************************************************)
(* C29: in app.py, whenever the readiness check reports no warnings        *)
(* (positive account, entry and stop, stop on the correct side of entry,   *)
(* percentage within 0.1 .. 10 or fixed amount within (0, account_size]),  *)
(* the live-preview call to calculate_risk_reward passes every input       *)
(* validation and can fail only with the position-size-ceiling error.      *)
(* Checked under AppSpec.                                                  *)
(***************************************************************************)
ReadyConditions(f) ==
    /\ RLess(Zero, f.account_size)
    /\ RLess(Zero, f.entry_price)
    /\ RLess(Zero, f.stop_loss)
    /\ f.position_type = "Long" => RLess(f.stop_loss, f.entry_price)
    /\ f.position_type = "Short" => RLess(f.entry_price, f.stop_loss)
    /\ IF f.risk_mode = "% of Account"
       THEN RLeq(MinRiskPercentage, f.risk_input) /\ RLeq(f.risk_input, Whole(10))
       ELSE RLess(Zero, f.risk_input) /\ RLeq(f.risk_input, f.account_size)

C29_ReadyPreviewPasses ==
    (run.end # "none" /\ pc # "preview") =>
        /\ run.is_ready <=> ReadyConditions(form)
        /\ run.is_ready => run.preview.ok \/ run.preview = Raise(MsgCeiling)
        /\ ~run.is_ready => run.preview = NoOutcome

\* A ready form whose preview fails with the ceiling error.
C29_Witness ==
    /\ pc = "submit"
    /\ run.is_ready
    /\ ReadyConditions(form)
    /\ run.preview = Raise(MsgCeiling)


(***************************************************************************)
(* C30: the inline calculation of demo_app.py and calculate_risk_reward    *)
(* are equivalent: on every input both accept or both reject, and when     *)
(* they accept they produce the same position_size, risk_amount,           *)
(* profit_1_1, profit_2_1 and stop_loss_amount.  Checked under DemoSpec.   *)
(***************************************************************************)
CoreOutcome ==
    calculate_risk_reward(args.position_type, args.account_size, args.risk_mode,
                          args.risk_input, args.entry_price, args.stop_loss)

C30_DemoEquivalent ==
    pc = "demo_done" =>
        /\ outcome.ok <=> CoreOutcome.ok
        /\ outcome.ok =>
              /\ outcome.position_size = CoreOutcome.position_size
              /\ outcome.risk_amount = CoreOutcome.risk_amount
              /\ outcome.profit_1_1 = CoreOutcome.profit_1_1
              /\ outcome.profit_2_1 = CoreOutcome.profit_2_1
              /\ outcome.stop_loss_amount = CoreOutcome.stop_loss_amount

\* The demo shows a position that calculate_risk_reward rejects for its
\* size.
C30_DemoAcceptsAboveCeiling ==
    /\ pc = "demo_done"
    /\ outcome.ok
    /\ RLess(Whole(MaxPositionSize), outcome.position_size)
    /\ CoreOutcome = Raise(MsgCeiling)

====
